---- MODULE Spec2Model ----
(***************************************************************************)
(* The psychic prediction backend of shouldntve: the DynamoDB-backed       *)
(* PredictionStore, the Lambda handlers that run on it (create, predict,   *)
(* llm-predict, reveal, get, list, test, delete), the PredictionComparer   *)
(* that wraps the oracle, and the dissimilarity test of PictureApiClient.  *)
(*                                                                         *)
(* A request is an authorized request with a JSON body (requireAuth and API *)
(* Gateway are outside the modelled files); a missing body is rejected like *)
(* a body without its required fields.                                      *)
(*                                                                         *)
(* A handler is one Lambda invocation.  Every await on the store is a      *)
(* point where another invocation may run, so a handler that reads and     *)
(* then writes is modelled as one step per store access.                   *)
(*                                                                         *)
(* An attribute of an item is a sequence of length 0 (the attribute is     *)
(* absent / undefined) or 1 (its value); JSON null is the value Null.      *)
(***************************************************************************)
EXTENDS Integers, Sequences, FiniteSets, TLC

\* ---------------------------------------------------------------- bounds
\* Number of session ids a behaviour may use.
MaxSessions == 2
\* Number of multi-step handler invocations that may be in flight at once.
MaxProcs == 2
\* Number of requests (handler invocations) in one behaviour.
MaxRequests == 3

Ids == 1..MaxSessions
Procs == 1..MaxProcs

\* ------------------------------------------------------- attribute values
Absent == <<>>
Null == "null"
Some(v) == <<v>>

\* JavaScript truthiness of a string-valued request or item attribute:
\* undefined, null and '' are falsy.
Truthy(x) == x # Absent /\ x[1] # Null /\ x[1] # ""

\* `x || null` of the store's ExpressionAttributeValues.
OrNull(x) == IF Truthy(x) THEN x ELSE Some(Null)

AllFields ==
  { "PK", "GSI1SK", "id", "createdAt", "updatedAt", "status", "team1", "team2",
    "picture1", "picture2", "team1PictureId", "predictionText",
    "predictionSketchUrl", "predictionTimestamp", "matchedTeam",
    "confidenceScore", "reasoning", "picture1Analysis", "picture2Analysis",
    "winningTeam", "revealedPictureId", "revealTimestamp", "revealedPicture" }

\* The object with no property; in the store, the absence of an item.
EmptyItem == [f \in AllFields |-> Absent]

\* const { a, b, ...rest } = obj
Omit(obj, fields) == [f \in AllFields |-> IF f \in fields THEN Absent ELSE obj[f]]

\* new Date().toISOString(): only the presence of these attributes is modelled.
Now == "ts"

\* ---------------------------------------------------------------- pictures
\* A hex colour string is the sequence of its hex digits after the '#'
\* (a string of another length does not match the 6-digit pattern).
Black == <<0, 0, 0, 0, 0, 0>>

\* What the Picture Source can return: a picture without metadata, and
\* pictures with an average colour and a description (a sequence of words).
Pool ==
  { [id |-> "p1", avgColor |-> Absent, description |-> <<>>],
    [id |-> "p2", avgColor |-> Some(Black), description |-> <<"Sun", "sea">>] }

hexToRgb(hex) ==
  IF Len(hex) = 6
    THEN [r |-> 16 * hex[1] + hex[2], g |-> 16 * hex[3] + hex[4], b |-> 16 * hex[5] + hex[6]]
    ELSE [r |-> 0, g |-> 0, b |-> 0]

\* The square of the Euclidean distance of colorDistance, before the root.
SquaredDistance(color1, color2) ==
  LET rgb1 == hexToRgb(color1)
      rgb2 == hexToRgb(color2)
  IN  (rgb1.r - rgb2.r) * (rgb1.r - rgb2.r)
        + (rgb1.g - rgb2.g) * (rgb1.g - rgb2.g)
        + (rgb1.b - rgb2.b) * (rgb1.b - rgb2.b)

\* colorDistance(c1, c2) < 0.3, i.e. sqrt(d2) / 441 < 0.3, over the integers.
ColorTooSimilar(color1, color2) ==
  100 * SquaredDistance(color1, color2) < 9 * 441 * 441

\* String.prototype.toLowerCase over the words of the pool.
toLowerCase(w) ==
  CASE w = "Sun" -> "sun"
    [] w = "SEA" -> "sea"
    [] OTHER -> w

WordSet(description) == { toLowerCase(description[i]) : i \in 1..Len(description) }

\* similarity > 0.5 with similarity = |intersection| / |union|.
DescriptionTooSimilar(d1, d2) ==
  2 * Cardinality(WordSet(d1) \cap WordSet(d2)) > Cardinality(WordSet(d1) \cup WordSet(d2))

arePicturesDissimilar(picture1, picture2) ==
  /\ ~ ( /\ picture1.avgColor # Absent
         /\ picture2.avgColor # Absent
         /\ ColorTooSimilar(picture1.avgColor[1], picture2.avgColor[1]) )
  /\ ~ ( /\ picture1.description # <<>>
         /\ picture2.description # <<>>
         /\ DescriptionTooSimilar(picture1.description, picture2.description) )

\* The pairs fetchTwoDissimilarPictures can return with no excluded ids: after
\* its bounded resampling the two candidates may be any two pictures of the
\* source (the same one twice included), and the pair is returned when
\* arePicturesDissimilar accepts it.
SelectorPairs == { pr \in Pool \X Pool : arePicturesDissimilar(pr[1], pr[2]) }

\* ------------------------------------------------------------------ state
VARIABLES
  store,     \* the DynamoDB table: session id -> item (EmptyItem when there is none)
  nextId,    \* the next id generatePredictionId returns (ids are never reused)
  proc,      \* the handler invocations that are between two store accesses
  lastResp,  \* the response most recently returned by a handler
  nresp,     \* the number of responses returned so far
  sel        \* the locals of a running fetchTwoDissimilarPictures call

vars == <<store, nextId, proc, lastResp, nresp, sel>>

\* No fetchTwoDissimilarPictures call is being followed step by step.
NoSelection ==
  [pc |-> "idle", attempts |-> 0, retries |-> 0, picture1 |-> Absent, picture2 |-> Absent,
   usedPictureIds |-> {}, error |-> "none"]

Idle ==
  [pc |-> "idle", op |-> "none", id |-> 0, text |-> Absent, sketch |-> Absent,
   winningTeam |-> Absent, revealedPictureId |-> Absent, prediction |-> EmptyItem]

NoComparison ==
  [matchedPictureId |-> Absent, confidenceScore |-> Absent, reasoning |-> Absent,
   picture1Analysis |-> Absent, picture2Analysis |-> Absent]

NoResp ==
  [op |-> "none", id |-> 0, code |-> 0, error |-> "none", view |-> EmptyItem,
   hasView |-> FALSE, list |-> <<>>, cmp |-> NoComparison, seen |-> Absent,
   inspect |-> FALSE, threw |-> "none"]

\* ------------------------------------------------------------ request inputs
Teams1 == { Absent, Some("A") }
Teams == { Absent, Some("A"), Some("B") }
Texts == { Absent, Some(""), Some("t") }
\* The (predictionText, predictionSketchUrl) pairs of a predict request.
Guesses == { <<Absent, Absent>>, <<Some(""), Absent>>, <<Some("t"), Absent>>, <<Absent, Some("s")>> }
IdInputs == { 0 } \cup Ids            \* 0: the request names no predictionId
Models == { Absent, Some("claude-4.5"), Some("gpt-4") }
VALID_MODELS == { "claude-4.5", "gemini-3", "gpt-5" }
\* What generatePrediction returns: a text, the empty text, or an exception.
Generated == { "throws", "", "t" }
DefaultLimit == 50
Limits == { 1, DefaultLimit }

\* What the PredictionComparer can meet: no ANTHROPIC_API_KEY ("nokey": its
\* constructor throws), and what the oracle call of comparePrediction can
\* produce: an exception (image fetch or API failure, or a JSON object that
\* does not parse), a reply without a JSON object, or a JSON object:
\* a match of either picture, no match, an id that is neither 'picture1' nor
\* 'picture2', a confidence of 0, in range, and out of range.
OracleOutputs ==
  { [kind |-> k, matchedPictureId |-> Null, confidenceScore |-> 0, reasoning |-> Absent]
      : k \in { "error", "nojson", "nokey" } }
  \cup
  { [kind |-> "json", matchedPictureId |-> "picture1", confidenceScore |-> 85, reasoning |-> Some("why")],
    [kind |-> "json", matchedPictureId |-> "picture2", confidenceScore |-> 150, reasoning |-> Some("why")],
    [kind |-> "json", matchedPictureId |-> Null, confidenceScore |-> 0, reasoning |-> Some("why")],
    [kind |-> "json", matchedPictureId |-> "other", confidenceScore |-> 85, reasoning |-> Some("why")] }

\* ------------------------------------------------------------ PredictionStore
Exists(id) == store[id]["PK"] # Absent

\* getPrediction: null (here EmptyItem, told apart by IsNull) when there is
\* no item, else the item without PK and SK.
getPrediction(id) == Omit(store[id], { "PK" })

\* A lookup that never reports a missing item.
IsNullNever(id) == FALSE

\* `!prediction` of the handlers.
IsNull(id) == ~ Exists(id)

\* The put of the earlier createPrediction, which writes no GSI1 keys.
createPredictionNoIndex(id, team1, team2, picture1, picture2, team1PictureId) ==
  [ EmptyItem EXCEPT
      !["PK"] = Some(id),
      !["id"] = Some(id),
      !["createdAt"] = Some(id),
      !["updatedAt"] = Some(Now),
      !["status"] = Some("created"),
      !["team1"] = team1,
      !["team2"] = team2,
      !["picture1"] = Some(picture1),
      !["picture2"] = Some(picture2),
      !["team1PictureId"] = Some(team1PictureId) ]

\* createPrediction: the item put under a fresh id.
createPrediction(id, team1, team2, picture1, picture2, team1PictureId) ==
  [ EmptyItem EXCEPT
      !["PK"] = Some(id),
      !["GSI1SK"] = Some(<<id, id>>),
      !["id"] = Some(id),
      !["createdAt"] = Some(id),
      !["updatedAt"] = Some(Now),
      !["status"] = Some("created"),
      !["team1"] = team1,
      !["team2"] = team2,
      !["picture1"] = Some(picture1),
      !["picture2"] = Some(picture2),
      !["team1PictureId"] = Some(team1PictureId) ]

\* An update that sets the guess and the verdict and leaves the status to a
\* second write.
updateGuessWithoutStatus(item, id, predictionText, predictionSketchUrl, matchedTeam, confidenceScore, reasoning, picture1Analysis, picture2Analysis) ==
  [ item EXCEPT
      !["PK"] = Some(id),
      !["predictionText"] = OrNull(predictionText),
      !["predictionSketchUrl"] = OrNull(predictionSketchUrl),
      !["predictionTimestamp"] = Some(Now),
      !["matchedTeam"] = OrNull(matchedTeam),
      !["confidenceScore"] = Some(confidenceScore),
      !["reasoning"] = OrNull(reasoning),
      !["picture1Analysis"] = OrNull(picture1Analysis),
      !["picture2Analysis"] = OrNull(picture2Analysis),
      !["updatedAt"] = Some(Now) ]

\* updatePredictionGuess: an UpdateItem with a SET expression and no
\* condition; UpdateItem creates the item when the key does not exist.
updatePredictionGuess(item, id, predictionText, predictionSketchUrl, matchedTeam, confidenceScore, reasoning, picture1Analysis, picture2Analysis) ==
  [ item EXCEPT
      !["PK"] = Some(id),
      !["status"] = Some("prediction_made"),
      !["predictionText"] = OrNull(predictionText),
      !["predictionSketchUrl"] = OrNull(predictionSketchUrl),
      !["predictionTimestamp"] = Some(Now),
      !["matchedTeam"] = OrNull(matchedTeam),
      !["confidenceScore"] = Some(confidenceScore),
      !["reasoning"] = OrNull(reasoning),
      !["picture1Analysis"] = OrNull(picture1Analysis),
      !["picture2Analysis"] = OrNull(picture2Analysis),
      !["updatedAt"] = Some(Now) ]

\* A reveal that only takes effect on a session with a prediction.
revealPredictionAfterGuessOnly(item, id, winningTeam, revealedPictureId) ==
  IF item["status"] = Some("prediction_made")
    THEN [ item EXCEPT
             !["status"] = Some("revealed"),
             !["winningTeam"] = winningTeam,
             !["revealedPictureId"] = revealedPictureId,
             !["revealTimestamp"] = Some(Now),
             !["updatedAt"] = Some(Now) ]
    ELSE item

\* A reveal that closes the session with the fourth status of the enum.
revealPredictionExpires(item, id, winningTeam, revealedPictureId) ==
  [ item EXCEPT
      !["PK"] = Some(id),
      !["status"] = Some("expired"),
      !["winningTeam"] = winningTeam,
      !["revealedPictureId"] = revealedPictureId,
      !["revealTimestamp"] = Some(Now),
      !["updatedAt"] = Some(Now) ]

\* revealPrediction: likewise an unconditional UpdateItem.
revealPrediction(item, id, winningTeam, revealedPictureId) ==
  [ item EXCEPT
      !["PK"] = Some(id),
      !["status"] = Some("revealed"),
      !["winningTeam"] = winningTeam,
      !["revealedPictureId"] = revealedPictureId,
      !["revealTimestamp"] = Some(Now),
      !["updatedAt"] = Some(Now) ]

\* listPredictions: the items of index GSI1 (those with the GSI1 keys),
\* in descending order of GSI1SK, at most `limit` of them.
RECURSIVE Descending(_)
Descending(ids) ==
  IF ids = {} THEN <<>>
  ELSE LET top == CHOOSE i \in ids : \A j \in ids : store[j]["createdAt"][1] <= store[i]["createdAt"][1]
       IN  <<top>> \o Descending(ids \ { top })

listPredictions(limit) ==
  LET all == Descending({ i \in Ids : store[i]["GSI1SK"] # Absent })
  IN  [ k \in 1..(IF Len(all) < limit THEN Len(all) ELSE limit) |->
          Omit(store[all[k]], { "PK", "GSI1SK" }) ]

\* ---------------------------------------------------------- PredictionComparer
\* new PredictionComparer() throws when no API key is configured.
ComparerThrows(o) == o.kind = "nokey"

\* The 500 of a handler's catch block after the constructor threw.
ComparerFailure(op, id) ==
  [NoResp EXCEPT !.op = op, !.id = id, !.code = 500, !.error = "Failure",
                 !.threw = "PredictionComparer"]

\* The result returned for a reply without JSON and by the catch block; the
\* diagnostic texts are modelled by one marker.
Degraded(reason) ==
  [matchedPictureId |-> Some(Null), confidenceScore |-> Some(0), reasoning |-> Some(reason),
   picture1Analysis |-> Some("error"), picture2Analysis |-> Some("error")]

\* A mapping that takes every answer other than 'picture1' and null for
\* picture2.
comparePredictionLoose(predictionText, predictionSketchUrl, picture1, picture2, o) ==
  IF ~ Truthy(predictionText) /\ ~ Truthy(predictionSketchUrl)
    THEN [NoComparison EXCEPT !.matchedPictureId = Some(Null), !.confidenceScore = Some(0)]
  ELSE IF o.kind = "error" THEN Degraded("Error")
  ELSE IF o.kind = "nojson" THEN Degraded("Error")
  ELSE [ matchedPictureId |->
           IF o.matchedPictureId = "picture1" THEN Some(picture1.id)
           ELSE IF o.matchedPictureId = Null THEN Some(Null)
           ELSE Some(picture2.id),
         confidenceScore |-> Some(o.confidenceScore),
         reasoning |-> o.reasoning,
         picture1Analysis |-> o.reasoning,
         picture2Analysis |-> o.reasoning ]

comparePrediction(predictionText, predictionSketchUrl, picture1, picture2, o) ==
  IF ~ Truthy(predictionText) /\ ~ Truthy(predictionSketchUrl)
    THEN [NoComparison EXCEPT !.matchedPictureId = Some(Null), !.confidenceScore = Some(0)]
  ELSE IF o.kind = "error" THEN Degraded("Error")
  ELSE IF o.kind = "nojson" THEN Degraded("Error")
  ELSE [ matchedPictureId |->
           IF o.matchedPictureId = "picture1" THEN Some(picture1.id)
           ELSE IF o.matchedPictureId = "picture2" THEN Some(picture2.id)
           ELSE Some(Null),
         confidenceScore |-> Some(o.confidenceScore),
         reasoning |-> o.reasoning,
         picture1Analysis |-> o.reasoning,
         picture2Analysis |-> o.reasoning ]

\* "Determine which team the matched picture corresponds to" of the predict
\* and llm-predict handlers.
MatchedTeam(prediction, matchedPictureId) ==
  IF Truthy(matchedPictureId)
    THEN IF matchedPictureId = prediction["team1PictureId"]
           THEN prediction["team1"]
           ELSE prediction["team2"]
    ELSE Absent

\* ------------------------------------------------------------------ handlers
InFlight == { p \in Procs : proc[p].pc # "idle" }

\* A new invocation takes the first free slot (the slots are interchangeable).
Free(p) == proc[p].pc = "idle" /\ \A q \in Procs : q < p => proc[q].pc # "idle"

\* A new invocation may start while the request budget lasts.
CanStart == nresp + Cardinality(InFlight) < MaxRequests

Respond(r) == lastResp' = r /\ nresp' = nresp + 1

Error(op, id, code, error) ==
  [NoResp EXCEPT !.op = op, !.id = id, !.code = code, !.error = error]

Ok(op, id, view) ==
  [NoResp EXCEPT !.op = op, !.id = id, !.code = 200, !.view = view, !.hasView = TRUE]

\* ---- POST /psychic/create
\* The body of the 200 response: the stored prediction as createPrediction
\* returned it.
CreateResponseView(prediction) == Omit(prediction, { "PK", "GSI1SK" })

\* A create that stores the session before it asks for the pictures and
\* completes it afterwards.
PostPsychicCreateStoresFirst(team1, team2, selected, put) ==
  /\ UNCHANGED sel
  /\ CanStart
  /\ nextId <= MaxSessions
  /\ UNCHANGED proc
  /\ IF ~ Truthy(team1) \/ ~ Truthy(team2)
       THEN /\ Respond(Error("create", 0, 400, "ValidationError"))
            /\ UNCHANGED <<store, nextId>>
     ELSE IF selected = <<>>
       THEN /\ Respond(Error("create", 0, 500, "Failure"))
            /\ nextId' = nextId + 1
            /\ store' = [store EXCEPT ![nextId] =
                           [ EmptyItem EXCEPT !["PK"] = Some(nextId), !["id"] = Some(nextId),
                                              !["status"] = Some("created"),
                                              !["team1"] = team1, !["team2"] = team2 ]]
     ELSE LET item == createPrediction(nextId, team1, team2, selected[1], selected[2],
                                       selected[1].id)
          IN  /\ nextId' = nextId + 1
              /\ store' = [store EXCEPT ![nextId] = item]
              /\ IF put
                   THEN Respond(Ok("create", nextId, CreateResponseView(item)))
                   ELSE Respond(Error("create", 0, 500, "Failure"))

\* selected: the pair the selector returned, or <<>> when it threw.
\* put: whether the PutItem succeeded.
PostPsychicCreate(team1, team2, selected, put) ==
  /\ UNCHANGED sel
  /\ CanStart
  /\ nextId <= MaxSessions
  /\ UNCHANGED proc
  /\ IF ~ Truthy(team1) \/ ~ Truthy(team2)
       THEN /\ Respond(Error("create", 0, 400, "ValidationError"))
            /\ UNCHANGED <<store, nextId>>
     ELSE IF selected = <<>>
       THEN /\ Respond(Error("create", 0, 500, "Failure"))
            /\ UNCHANGED <<store, nextId>>
     ELSE LET picture1 == selected[1]
              picture2 == selected[2]
              team1PictureId == picture1.id
              item == createPrediction(nextId, team1, team2, picture1, picture2, team1PictureId)
          IN  /\ nextId' = nextId + 1
              /\ IF put
                   THEN /\ store' = [store EXCEPT ![nextId] = item]
                        /\ Respond(Ok("create", nextId, CreateResponseView(item)))
                   ELSE /\ UNCHANGED store
                        /\ Respond(Error("create", 0, 500, "Failure"))

\* ---- POST /psychic/predict
\* A status check that only refuses a revealed session.
PredictAllowedUnlessRevealed(prediction) == prediction["status"] # Some("revealed")

\* The status check between the first read and the comparison.
PredictAllowed(prediction) == prediction["status"] = Some("created")

\* A response that returns the prediction read back as it is.
PredictResponseViewWhole(updatedPrediction) == updatedPrediction

\* The body of the 200 response, from the prediction read back after the update.
PredictResponseView(updatedPrediction) == Omit(updatedPrediction, { "picture1", "picture2" })

\* A validation that only asks for one of the two fields to be given.
HasGuessDefined(text, sketch) == text # Absent \/ sketch # Absent

\* `!request.predictionText && !request.predictionSketchUrl` is the rejection.
HasGuess(text, sketch) == Truthy(text) \/ Truthy(sketch)

PostPsychicPredictRead(p, id, text, sketch) ==
  /\ UNCHANGED sel
  /\ CanStart
  /\ Free(p)
  /\ UNCHANGED <<store, nextId>>
  /\ IF id = 0 \/ ~ HasGuess(text, sketch)
       THEN /\ Respond(Error("predict", id, 400, "ValidationError"))
            /\ UNCHANGED proc
     ELSE IF IsNull(id)
       THEN /\ Respond(Error("predict", id, 404, "NotFound"))
            /\ UNCHANGED proc
     ELSE IF ~ PredictAllowed(getPrediction(id))
       THEN /\ Respond([Error("predict", id, 400, "InvalidState")
                          EXCEPT !.seen = getPrediction(id)["status"]])
            /\ UNCHANGED proc
     ELSE /\ proc' = [proc EXCEPT ![p] =
                 [Idle EXCEPT !.pc = "update", !.op = "predict", !.id = id, !.text = text,
                              !.sketch = sketch, !.prediction = getPrediction(id)]]
          /\ UNCHANGED <<lastResp, nresp>>

\* comparePrediction, the team of the matched picture, and updatePredictionGuess.
GuessWrite(p, o, ok) ==
  LET r == proc[p]
      c == comparePrediction(r.text, r.sketch, r.prediction["picture1"][1],
                             r.prediction["picture2"][1], o)
      matchedTeam == MatchedTeam(r.prediction, c.matchedPictureId)
  IN  /\ UNCHANGED nextId
      /\ IF ComparerThrows(o)
           THEN /\ UNCHANGED store
                /\ proc' = [proc EXCEPT ![p] = Idle]
                /\ Respond(ComparerFailure(r.op, r.id))
         ELSE IF ok
           THEN /\ store' = [store EXCEPT ![r.id] =
                       updatePredictionGuess(store[r.id], r.id, r.text, r.sketch, matchedTeam,
                                             c.confidenceScore[1], c.reasoning,
                                             c.picture1Analysis, c.picture2Analysis)]
                /\ proc' = [proc EXCEPT ![p].pc = "reread"]
                /\ UNCHANGED <<lastResp, nresp>>
           ELSE /\ UNCHANGED store
                /\ proc' = [proc EXCEPT ![p] = Idle]
                /\ Respond(Error(r.op, r.id, 500, "Failure"))

PostPsychicPredictWrite(p, o, ok) ==
  /\ UNCHANGED sel
  /\ proc[p].pc = "update"
  /\ proc[p].op = "predict"
  /\ GuessWrite(p, o, ok)

\* The second getPrediction and the response; destructuring `null` (the item
\* was deleted meanwhile) throws and gives the 500 of the catch block.
GuessRespond(p) ==
  LET r == proc[p]
  IN  /\ UNCHANGED <<store, nextId>>
      /\ proc' = [proc EXCEPT ![p] = Idle]
      /\ IF IsNull(r.id)
           THEN Respond(Error(r.op, r.id, 500, "Failure"))
           ELSE Respond(Ok(r.op, r.id, PredictResponseView(getPrediction(r.id))))

PostPsychicPredictRespond(p) ==
  /\ UNCHANGED sel
  /\ proc[p].pc = "reread"
  /\ proc[p].op = "predict"
  /\ GuessRespond(p)

\* ---- POST /psychic/llm-predict
PostPsychicLlmPredictRead(p, id, model) ==
  /\ UNCHANGED sel
  /\ CanStart
  /\ Free(p)
  /\ UNCHANGED <<store, nextId>>
  /\ IF id = 0 \/ model = Absent \/ model[1] \notin VALID_MODELS
       THEN /\ Respond(Error("llm-predict", id, 400, "ValidationError"))
            /\ UNCHANGED proc
     ELSE IF IsNull(id)
       THEN /\ Respond(Error("llm-predict", id, 404, "NotFound"))
            /\ UNCHANGED proc
     ELSE IF ~ PredictAllowed(getPrediction(id))
       THEN /\ Respond([Error("llm-predict", id, 400, "InvalidState")
                          EXCEPT !.seen = getPrediction(id)["status"]])
            /\ UNCHANGED proc
     ELSE /\ proc' = [proc EXCEPT ![p] =
                 [Idle EXCEPT !.pc = "generate", !.op = "llm-predict", !.id = id,
                              !.prediction = getPrediction(id)]]
          /\ UNCHANGED <<lastResp, nresp>>

\* generatePrediction, then the same comparison and write as predict, with
\* the generated text and no sketch.
PostPsychicLlmPredictWrite(p, generatedText, o, ok) ==
  /\ UNCHANGED sel
  /\ proc[p].pc = "generate"
  /\ IF generatedText = "throws"
       THEN /\ UNCHANGED <<store, nextId>>
            /\ proc' = [proc EXCEPT ![p] = Idle]
            /\ Respond(Error("llm-predict", proc[p].id, 500, "Failure"))
     ELSE IF ComparerThrows(o)
       THEN /\ UNCHANGED <<store, nextId>>
            /\ proc' = [proc EXCEPT ![p] = Idle]
            /\ Respond(ComparerFailure("llm-predict", proc[p].id))
       ELSE LET r == proc[p]
                c == comparePrediction(Some(generatedText), Absent, r.prediction["picture1"][1],
                                       r.prediction["picture2"][1], o)
                matchedTeam == MatchedTeam(r.prediction, c.matchedPictureId)
            IN  /\ UNCHANGED nextId
                /\ IF ok
                     THEN /\ store' = [store EXCEPT ![r.id] =
                                 updatePredictionGuess(store[r.id], r.id, Some(generatedText),
                                                       Absent, matchedTeam, c.confidenceScore[1],
                                                       c.reasoning, c.picture1Analysis,
                                                       c.picture2Analysis)]
                          /\ proc' = [proc EXCEPT ![p].pc = "reread"]
                          /\ UNCHANGED <<lastResp, nresp>>
                     ELSE /\ UNCHANGED store
                          /\ proc' = [proc EXCEPT ![p] = Idle]
                          /\ Respond(Error("llm-predict", r.id, 500, "Failure"))

PostPsychicLlmPredictRespond(p) ==
  /\ UNCHANGED sel
  /\ proc[p].pc = "reread"
  /\ proc[p].op = "llm-predict"
  /\ GuessRespond(p)

\* ---- POST /psychic/reveal
\* "Determine which picture to reveal".
RevealedPictureId(prediction, winningTeam) ==
  IF winningTeam = prediction["team1"]
    THEN prediction["team1PictureId"]
  ELSE IF winningTeam = prediction["team2"]
    THEN IF prediction["team1PictureId"] = Some(prediction["picture1"][1].id)
           THEN Some(prediction["picture2"][1].id)
           ELSE Some(prediction["picture1"][1].id)
  ELSE prediction["team1PictureId"]

\* The body of the 200 response: the prediction read back after the update.
RevealResponseView(updatedPrediction) == updatedPrediction

\* A validation that accepts any non-empty label.
WinningTeamAny(prediction, winningTeam) == TRUE

\* "Validate that the winning team is one of the two teams".
WinningTeamValid(prediction, winningTeam) ==
  ~ (winningTeam # prediction["team1"] /\ winningTeam # prediction["team2"])

PostPsychicRevealRead(p, id, winningTeam) ==
  /\ UNCHANGED sel
  /\ CanStart
  /\ Free(p)
  /\ UNCHANGED <<store, nextId>>
  /\ IF id = 0 \/ ~ Truthy(winningTeam)
       THEN /\ Respond(Error("reveal", id, 400, "ValidationError"))
            /\ UNCHANGED proc
     ELSE IF IsNull(id)
       THEN /\ Respond(Error("reveal", id, 404, "NotFound"))
            /\ UNCHANGED proc
     ELSE IF ~ WinningTeamValid(getPrediction(id), winningTeam)
       THEN /\ Respond([Error("reveal", id, 400, "ValidationError")
                          EXCEPT !.seen = getPrediction(id)["status"]])
            /\ UNCHANGED proc
     ELSE /\ proc' = [proc EXCEPT ![p] =
                 [Idle EXCEPT !.pc = "reveal", !.op = "reveal", !.id = id,
                              !.winningTeam = winningTeam,
                              !.revealedPictureId =
                                 RevealedPictureId(getPrediction(id), winningTeam)]]
          /\ UNCHANGED <<lastResp, nresp>>

PostPsychicRevealWrite(p, ok) ==
  /\ UNCHANGED sel
  /\ proc[p].pc = "reveal"
  /\ UNCHANGED nextId
  /\ IF ok
       THEN /\ store' = [store EXCEPT ![proc[p].id] =
                   revealPrediction(store[proc[p].id], proc[p].id, proc[p].winningTeam,
                                    proc[p].revealedPictureId)]
            /\ proc' = [proc EXCEPT ![p].pc = "reread"]
            /\ UNCHANGED <<lastResp, nresp>>
       ELSE /\ UNCHANGED store
            /\ proc' = [proc EXCEPT ![p] = Idle]
            /\ Respond(Error("reveal", proc[p].id, 500, "Failure"))

\* `updatedPrediction!` is serialised as it is: null when the item is gone.
PostPsychicRevealRespond(p) ==
  /\ UNCHANGED sel
  /\ proc[p].pc = "reread"
  /\ proc[p].op = "reveal"
  /\ UNCHANGED <<store, nextId>>
  /\ proc' = [proc EXCEPT ![p] = Idle]
  /\ IF IsNull(proc[p].id)
       THEN Respond([Ok("reveal", proc[p].id, EmptyItem) EXCEPT !.hasView = FALSE])
       ELSE Respond(Ok("reveal", proc[p].id, RevealResponseView(getPrediction(proc[p].id))))

\* ---- GET /psychic/{predictionId}
\* Reading prediction.picture1.id of an item without picture1 throws.
GetThrows(prediction) ==
  prediction["status"] = Some("revealed") /\ prediction["picture1"] = Absent

\* A projection that only blanks team1PictureId before the reveal and passes
\* the pictures through.
GetViewBindingOnly(prediction, includePictures) ==
  IF prediction["status"] \in { Some("created"), Some("prediction_made") }
    THEN Omit(prediction, { "team1PictureId" })
    ELSE prediction

\* A projection that always shows picture1 as the revealed picture.
GetViewRevealedFirst(prediction, includePictures) ==
  IF prediction["status"] \in { Some("created"), Some("prediction_made") }
    THEN IF includePictures
           THEN Omit(prediction, { "team1PictureId" })
           ELSE Omit(prediction, { "picture1", "picture2", "team1PictureId" })
  ELSE IF prediction["status"] = Some("revealed")
    THEN [ Omit(prediction, { "picture1", "picture2" }) EXCEPT
             !["revealedPicture"] = prediction["picture1"] ]
  ELSE prediction

\* A projection whose includePictures branch returns the item as stored.
GetViewExposeBinding(prediction, includePictures) ==
  IF prediction["status"] \in { Some("created"), Some("prediction_made") }
    THEN IF includePictures
           THEN prediction
           ELSE Omit(prediction, { "picture1", "picture2", "team1PictureId" })
  ELSE IF prediction["status"] = Some("revealed")
    THEN [ Omit(prediction, { "picture1", "picture2" }) EXCEPT
             !["revealedPicture"] =
                IF prediction["revealedPictureId"] = Some(prediction["picture1"][1].id)
                  THEN prediction["picture1"]
                  ELSE prediction["picture2"] ]
  ELSE prediction

\* The projection of the handler, by status and the includePictures flag.
GetView(prediction, includePictures) ==
  IF prediction["status"] \in { Some("created"), Some("prediction_made") }
    THEN IF includePictures
           THEN Omit(prediction, { "team1PictureId" })
           ELSE Omit(prediction, { "picture1", "picture2", "team1PictureId" })
  ELSE IF prediction["status"] = Some("revealed")
    THEN [ Omit(prediction, { "picture1", "picture2" }) EXCEPT
             !["revealedPicture"] =
                IF prediction["revealedPictureId"] = Some(prediction["picture1"][1].id)
                  THEN prediction["picture1"]
                  ELSE prediction["picture2"] ]
  ELSE prediction

GetPsychic(id, includePictures) ==
  /\ UNCHANGED sel
  /\ CanStart
  /\ UNCHANGED <<store, nextId, proc>>
  /\ IF id = 0 THEN Respond(Error("get", id, 400, "ValidationError"))
     ELSE IF IsNull(id) THEN Respond(Error("get", id, 404, "NotFound"))
     ELSE IF GetThrows(getPrediction(id))
       THEN Respond([Error("get", id, 500, "Failure") EXCEPT !.seen = getPrediction(id)["status"]])
     ELSE Respond([Ok("get", id, GetView(getPrediction(id), includePictures))
                     EXCEPT !.seen = getPrediction(id)["status"], !.inspect = includePictures])

\* ---- GET /psychic
\* A list that returns the stored predictions as they are.
ListViewUnprojected(pred) == pred

\* The projection applied to each entry of the list.
ListView(pred) ==
  IF pred["status"] = Some("revealed") /\ Truthy(pred["revealedPictureId"])
    THEN [ Omit(pred, { "picture1", "picture2" }) EXCEPT
             !["revealedPicture"] =
                IF pred["revealedPictureId"] = Some(pred["picture1"][1].id)
                  THEN pred["picture1"]
                  ELSE pred["picture2"] ]
    ELSE Omit(pred, { "picture1", "picture2", "team1PictureId" })

GetPsychicList(limit) ==
  /\ UNCHANGED sel
  /\ CanStart
  /\ UNCHANGED <<store, nextId, proc>>
  /\ LET predictions == listPredictions(limit)
     IN  Respond([NoResp EXCEPT
                    !.op = "list", !.code = 200,
                    !.list = [k \in 1..Len(predictions) |-> ListView(predictions[k])]])

\* A test that saves the comparison it made.
PostPsychicTestCommits(id, text, o) ==
  /\ UNCHANGED sel
  /\ CanStart
  /\ UNCHANGED <<nextId, proc>>
  /\ IF id = 0 \/ ~ Truthy(text)
       THEN Respond(Error("test", id, 400, "ValidationError")) /\ UNCHANGED store
     ELSE IF IsNull(id)
       THEN Respond(Error("test", id, 404, "NotFound")) /\ UNCHANGED store
     ELSE IF ComparerThrows(o) \/ getPrediction(id)["picture1"] = Absent
       THEN Respond([Error("test", id, 500, "Failure") EXCEPT !.seen = getPrediction(id)["status"]])
            /\ UNCHANGED store
     ELSE LET c == comparePrediction(text, Absent, getPrediction(id)["picture1"][1],
                                     getPrediction(id)["picture2"][1], o)
          IN  /\ Respond([NoResp EXCEPT !.op = "test", !.id = id, !.code = 200,
                                        !.seen = getPrediction(id)["status"], !.cmp = c])
              /\ store' = [store EXCEPT ![id]["confidenceScore"] = c.confidenceScore,
                                        ![id]["reasoning"] = OrNull(c.reasoning)]

\* ---- POST /psychic/{predictionId}/test
\* comparePrediction logs picture1.id before its try block: it throws on an
\* item without pictures.
PostPsychicTest(id, text, o) ==
  /\ UNCHANGED sel
  /\ CanStart
  /\ UNCHANGED <<store, nextId, proc>>
  /\ IF id = 0 \/ ~ Truthy(text)
       THEN Respond(Error("test", id, 400, "ValidationError"))
     ELSE IF IsNull(id) THEN Respond(Error("test", id, 404, "NotFound"))
     ELSE IF ComparerThrows(o)
       THEN Respond([ComparerFailure("test", id) EXCEPT !.seen = getPrediction(id)["status"]])
     ELSE IF getPrediction(id)["picture1"] = Absent
       THEN Respond([Error("test", id, 500, "Failure") EXCEPT !.seen = getPrediction(id)["status"]])
     ELSE Respond([NoResp EXCEPT
                     !.op = "test", !.id = id, !.code = 200,
                     !.seen = getPrediction(id)["status"],
                     !.cmp = comparePrediction(text, Absent, getPrediction(id)["picture1"][1],
                                               getPrediction(id)["picture2"][1], o)])

\* ---- DELETE /psychic/{predictionId}
DeletePsychicRead(p, id) ==
  /\ UNCHANGED sel
  /\ CanStart
  /\ Free(p)
  /\ UNCHANGED <<store, nextId>>
  /\ IF id = 0
       THEN Respond(Error("delete", id, 400, "ValidationError")) /\ UNCHANGED proc
     ELSE IF IsNull(id)
       THEN Respond(Error("delete", id, 404, "NotFound")) /\ UNCHANGED proc
     ELSE /\ proc' = [proc EXCEPT ![p] = [Idle EXCEPT !.pc = "delete", !.op = "delete", !.id = id]]
          /\ UNCHANGED <<lastResp, nresp>>

\* A delete that removes every item of the table.
DeletePsychicWriteAll(p, ok) ==
  /\ UNCHANGED sel
  /\ proc[p].pc = "delete"
  /\ UNCHANGED nextId
  /\ proc' = [proc EXCEPT ![p] = Idle]
  /\ IF ok
       THEN /\ store' = [i \in Ids |-> EmptyItem]
            /\ Respond([NoResp EXCEPT !.op = "delete", !.id = proc[p].id, !.code = 200])
       ELSE /\ UNCHANGED store
            /\ Respond(Error("delete", proc[p].id, 500, "Failure"))

DeletePsychicWrite(p, ok) ==
  /\ UNCHANGED sel
  /\ proc[p].pc = "delete"
  /\ UNCHANGED nextId
  /\ proc' = [proc EXCEPT ![p] = Idle]
  /\ IF ok
       THEN /\ store' = [store EXCEPT ![proc[p].id] = EmptyItem]
            /\ Respond([NoResp EXCEPT !.op = "delete", !.id = proc[p].id, !.code = 200])
       ELSE /\ UNCHANGED store
            /\ Respond(Error("delete", proc[p].id, 500, "Failure"))

\* ------------------------------------------------------------ specification
Init ==
  /\ store = [i \in Ids |-> EmptyItem]
  /\ nextId = 1
  /\ proc = [p \in Procs |-> Idle]
  /\ lastResp = NoResp
  /\ nresp = 0
  /\ sel = NoSelection

Next ==
  \/ \E team1 \in Teams1, team2 \in Teams, selected \in SelectorPairs \cup { <<>> }, put \in BOOLEAN :
       PostPsychicCreate(team1, team2, selected, put)
  \/ \E p \in Procs, id \in IdInputs, g \in Guesses : PostPsychicPredictRead(p, id, g[1], g[2])
  \/ \E p \in Procs, o \in OracleOutputs, ok \in BOOLEAN : PostPsychicPredictWrite(p, o, ok)
  \/ \E p \in Procs : PostPsychicPredictRespond(p)
  \/ \E p \in Procs, id \in IdInputs, model \in Models : PostPsychicLlmPredictRead(p, id, model)
  \/ \E p \in Procs, generatedText \in Generated, o \in OracleOutputs, ok \in BOOLEAN :
       PostPsychicLlmPredictWrite(p, generatedText, o, ok)
  \/ \E p \in Procs : PostPsychicLlmPredictRespond(p)
  \/ \E p \in Procs, id \in IdInputs, winningTeam \in Teams : PostPsychicRevealRead(p, id, winningTeam)
  \/ \E p \in Procs, ok \in BOOLEAN : PostPsychicRevealWrite(p, ok)
  \/ \E p \in Procs : PostPsychicRevealRespond(p)
  \/ \E id \in IdInputs, includePictures \in BOOLEAN : GetPsychic(id, includePictures)
  \/ \E limit \in Limits : GetPsychicList(limit)
  \/ \E id \in IdInputs, text \in Texts, o \in OracleOutputs : PostPsychicTest(id, text, o)
  \/ \E p \in Procs, id \in IdInputs : DeletePsychicRead(p, id)
  \/ \E p \in Procs, ok \in BOOLEAN : DeletePsychicWrite(p, ok)

Spec == Init /\ [][Next]_vars

\* ------------------------------------------- fetchTwoDissimilarPictures
\* One call of fetchTwoDissimilarPictures followed step by step, one step per
\* fetchRandomPicture call or loop decision, against a Picture Source that
\* answers each call with any of its pictures or with an error.
maxAttempts == 10
\* The limit of the two inner `retries < 5` loops.
MaxRetries == 5

DarkGrey == <<4, 0, 4, 0, 4, 0>>
White == <<15, 15, 15, 15, 15, 15>>
\* #840900: at distance sqrt(17505) = 132.3 of black.
Rust == <<8, 4, 0, 9, 0, 0>>

\* '#fff': three hex digits, which the 6-digit pattern of hexToRgb refuses.
ShortWhite == <<15, 15, 15>>

\* The pictures of the source: those of Pool, a picture close to p2 in colour
\* and in words, one far from it in both, one without colour that shares
\* p2's words, one without description close to p2 in colour, one without
\* description whose colour is at the threshold distance of p2's, and one
\* without description whose avgColor is not a 6-digit hex colour.
Source ==
  Pool \cup
  { [id |-> "p3", avgColor |-> Some(DarkGrey), description |-> <<"SEA", "sun", "sky">>],
    [id |-> "p4", avgColor |-> Some(White), description |-> <<"sky">>],
    [id |-> "p5", avgColor |-> Absent, description |-> <<"sun", "sea">>],
    [id |-> "p6", avgColor |-> Some(DarkGrey), description |-> <<>>],
    [id |-> "p7", avgColor |-> Some(Rust), description |-> <<>>],
    [id |-> "p8", avgColor |-> Some(ShortWhite), description |-> <<>>] }

\* The usedPictureIds arguments of the calls that are followed.
UsedSets == { {}, { "p1" } }

\* A catch block that rethrows whatever the attempt.
SelectorCatchRethrows ==
  sel' = [sel EXCEPT !.pc = "failed", !.error = "source"]

\* The catch block of the loop body.
SelectorCatch ==
  sel' = IF sel.attempts = maxAttempts
           THEN [sel EXCEPT !.pc = "failed", !.error = "source"]
           ELSE [sel EXCEPT !.pc = "loop"]

\* A loop that does not count its attempts.
SelectorLoopUncounted ==
  /\ sel.pc = "loop"
  /\ UNCHANGED <<store, nextId, proc, lastResp, nresp>>
  /\ sel' = IF sel.attempts < maxAttempts
              THEN [sel EXCEPT !.pc = "fetch1", !.retries = 0,
                               !.picture1 = Absent, !.picture2 = Absent]
              ELSE [sel EXCEPT !.pc = "failed", !.error = "exhausted"]

\* while (attempts < maxAttempts) { attempts++; ... } and the throw after it.
SelectorLoop ==
  /\ sel.pc = "loop"
  /\ UNCHANGED <<store, nextId, proc, lastResp, nresp>>
  /\ sel' = IF sel.attempts < maxAttempts
              THEN [sel EXCEPT !.pc = "fetch1", !.attempts = @ + 1, !.retries = 0,
                               !.picture1 = Absent, !.picture2 = Absent]
              ELSE [sel EXCEPT !.pc = "failed", !.error = "exhausted"]

\* let picture1 = await this.fetchRandomPicture(); let retries = 0
SelectorFetchFirst(picture, throws) ==
  /\ sel.pc = "fetch1"
  /\ UNCHANGED <<store, nextId, proc, lastResp, nresp>>
  /\ IF throws THEN SelectorCatch
     ELSE sel' = [sel EXCEPT !.pc = "retry1", !.picture1 = Some(picture), !.retries = 0]

\* while (usedPictureIds.has(picture1.id) && retries < 5) { refetch; retries++ }
SelectorRetryFirst(picture, throws) ==
  /\ sel.pc = "retry1"
  /\ UNCHANGED <<store, nextId, proc, lastResp, nresp>>
  /\ IF sel.picture1[1].id \in sel.usedPictureIds /\ sel.retries < MaxRetries
       THEN IF throws THEN SelectorCatch
            ELSE sel' = [sel EXCEPT !.picture1 = Some(picture), !.retries = @ + 1]
       ELSE sel' = [sel EXCEPT !.pc = "fetch2"]

\* let picture2 = await this.fetchRandomPicture(); retries = 0
SelectorFetchSecond(picture, throws) ==
  /\ sel.pc = "fetch2"
  /\ UNCHANGED <<store, nextId, proc, lastResp, nresp>>
  /\ IF throws THEN SelectorCatch
     ELSE sel' = [sel EXCEPT !.pc = "retry2", !.picture2 = Some(picture), !.retries = 0]

\* while ((picture2.id === picture1.id || usedPictureIds.has(picture2.id))
\*        && retries < 5) { refetch; retries++ }
SelectorRetrySecond(picture, throws) ==
  /\ sel.pc = "retry2"
  /\ UNCHANGED <<store, nextId, proc, lastResp, nresp>>
  /\ IF /\ ( sel.picture2[1].id = sel.picture1[1].id
             \/ sel.picture2[1].id \in sel.usedPictureIds )
        /\ sel.retries < MaxRetries
       THEN IF throws THEN SelectorCatch
            ELSE sel' = [sel EXCEPT !.picture2 = Some(picture), !.retries = @ + 1]
       ELSE sel' = [sel EXCEPT !.pc = "check"]

\* if (this.arePicturesDissimilar(picture1, picture2)) return [picture1, picture2]
SelectorCheck ==
  /\ sel.pc = "check"
  /\ UNCHANGED <<store, nextId, proc, lastResp, nresp>>
  /\ sel' = IF arePicturesDissimilar(sel.picture1[1], sel.picture2[1])
              THEN [sel EXCEPT !.pc = "done"]
              ELSE [sel EXCEPT !.pc = "loop"]

SelectorInit ==
  /\ store = [i \in Ids |-> EmptyItem]
  /\ nextId = 1
  /\ proc = [p \in Procs |-> Idle]
  /\ lastResp = NoResp
  /\ nresp = 0
  /\ \E used \in UsedSets :
       sel = [NoSelection EXCEPT !.pc = "loop", !.usedPictureIds = used]

SelectorNext ==
  \/ SelectorLoop
  \/ \E picture \in Source, throws \in BOOLEAN : SelectorFetchFirst(picture, throws)
  \/ \E picture \in Source, throws \in BOOLEAN : SelectorRetryFirst(picture, throws)
  \/ \E picture \in Source, throws \in BOOLEAN : SelectorFetchSecond(picture, throws)
  \/ \E picture \in Source, throws \in BOOLEAN : SelectorRetrySecond(picture, throws)
  \/ SelectorCheck

\* Every fetchRandomPicture call returns or throws, and the code between two
\* calls runs to the next call: the call that is followed keeps taking steps.
SelectorSpec == SelectorInit /\ [][SelectorNext]_vars /\ WF_vars(SelectorNext)

\* ------------------------------------------------------------------ claims
Unrevealed == { Some("created"), Some("prediction_made") }
VerdictFields ==
  { "matchedTeam", "confidenceScore", "reasoning", "picture1Analysis", "picture2Analysis" }
PictureIds == { pic.id : pic \in Pool }

HidesPictures(view) == view["picture1"] = Absent /\ view["picture2"] = Absent
HidesBinding(view) == view["team1PictureId"] = Absent

\* The step just taken returned a response.
Responded == nresp' = nresp + 1

C2_DoubleBlind ==
  /\ ( lastResp.hasView /\ lastResp.view["status"] \in Unrevealed )
       => /\ HidesBinding(lastResp.view)
          /\ ~ (lastResp.op = "get" /\ lastResp.inspect) => HidesPictures(lastResp.view)
  /\ \A k \in 1..Len(lastResp.list) :
       lastResp.list[k]["status"] \in Unrevealed
         => HidesBinding(lastResp.list[k]) /\ HidesPictures(lastResp.list[k])
  /\ ( lastResp.op = "test" /\ lastResp.code = 200 /\ lastResp.seen \in Unrevealed )
       => lastResp.cmp.matchedPictureId \notin { Some(x) : x \in PictureIds }

\* C3: the response of a successful create has status created and none of
\* picture1, picture2, team1PictureId.
C3_CreateResponseHidesPictures ==
  ( lastResp.op = "create" /\ lastResp.code = 200 )
  => /\ lastResp.view["status"] = Some("created")
     /\ HidesPictures(lastResp.view)
     /\ HidesBinding(lastResp.view)

\* C4: the response of a successful reveal has status revealed and exactly one
\* picture field, revealedPicture, the picture whose id is revealedPictureId;
\* picture1 and picture2 are absent.
C4_RevealResponseOnePicture ==
  ( lastResp.op = "reveal" /\ lastResp.code = 200 /\ lastResp.hasView )
  => /\ lastResp.view["status"] = Some("revealed")
     /\ HidesPictures(lastResp.view)
     /\ lastResp.view["revealedPicture"] # Absent
     /\ Some(lastResp.view["revealedPicture"][1].id) = lastResp.view["revealedPictureId"]

C6_ListEntriesProjected ==
  \A k \in 1..Len(lastResp.list) :
    LET e == lastResp.list[k]
    IN  /\ e["status"] \in Unrevealed => HidesPictures(e) /\ HidesBinding(e)
        /\ e["status"] = Some("revealed")
             => /\ HidesPictures(e)
                /\ e["revealedPicture"] # Absent
                /\ Some(e["revealedPicture"][1].id) = e["revealedPictureId"]

C6_Witness ==
  /\ lastResp.op = "list"
  /\ Len(lastResp.list) = 1
  /\ lastResp.list[1]["status"] = Some("revealed")
  /\ lastResp.list[1]["revealedPicture"] # Absent
  /\ store[lastResp.list[1]["id"][1]]["picture2"] # Absent

\* C7: reveal correctness: revealing team1 stores the id of the picture bound
\* to team1 (team1PictureId), revealing team2 stores the id of the other
\* picture, for both bindings.
C7_RevealCorrect ==
  \A i \in Ids :
    ( store[i]["winningTeam"] # Absent /\ store[i]["team1"] # Absent )
    => LET bound == store[i]["team1PictureId"]
           other == IF bound = Some(store[i]["picture1"][1].id)
                      THEN Some(store[i]["picture2"][1].id)
                      ELSE Some(store[i]["picture1"][1].id)
       IN  /\ store[i]["winningTeam"] = store[i]["team1"] => store[i]["revealedPictureId"] = bound
           /\ store[i]["winningTeam"] = store[i]["team2"] => store[i]["revealedPictureId"] = other

Rank(status) ==
  CASE status = Some("created") -> 1
    [] status = Some("prediction_made") -> 2
    [] status = Some("revealed") -> 3
    [] OTHER -> 0

\* C8: in every interleaving the stored status of a session only moves
\* created -> prediction_made -> revealed.
C8_StatusNeverRegresses ==
  [][ \A i \in Ids : (Exists(i) /\ Exists(i)') => Rank(store[i]["status"]) <= Rank(store'[i]["status"]) ]_vars

\* C9: every write is conditional on the status its writer read: a guess is
\* written only over status created and a reveal only over a session that is
\* not yet revealed, so no write overwrites what the winner of a race stored.
C9_WritesAreConditional ==
  [][ \A i \in Ids :
        ( Exists(i) /\ store'[i] # store[i] /\ Exists(i)' )
        => /\ store'[i]["status"] = Some("prediction_made") => store[i]["status"] = Some("created")
           /\ store'[i]["status"] = Some("revealed") => store[i]["status"] \in Unrevealed ]_vars

\* C10: a predict request with a text or a sketch that finds the session in a
\* status other than created is rejected with InvalidState and writes
\* nothing: no such request goes on to the comparison, and the step that
\* rejects it leaves the stored session, its verdict, predictionText and
\* status, as it was.
C10_PredictOnlyFromCreated ==
  [][ /\ \A p \in Procs :
           proc'[p].op = "predict" => proc'[p].prediction["status"] = Some("created")
      /\ ( /\ Responded
           /\ lastResp'.op = "predict"
           /\ lastResp'.seen \in { Some("prediction_made"), Some("revealed") } )
         => /\ lastResp'.code = 400
            /\ lastResp'.error = "InvalidState"
            /\ store' = store ]_vars

C10_Witness ==
  /\ lastResp.op = "predict"
  /\ lastResp.error = "InvalidState"
  /\ lastResp.seen = Some("prediction_made")
  /\ store[lastResp.id]["status"] = Some("prediction_made")
  /\ store[lastResp.id]["matchedTeam"] = Some("A")

\* C11: a reveal whose winningTeam is neither team1 nor team2 of the session
\* is rejected with ValidationError and the stored session is unchanged: no
\* such request goes on to the write, no stored winningTeam is a label the
\* session does not have, and the step that rejects it leaves the store as
\* it was.
C11_RevealInvalidLabelRejected ==
  [][ /\ \A p \in Procs :
           ( proc'[p].op = "reveal" /\ store'[proc'[p].id]["team1"] # Absent )
           => proc'[p].winningTeam \in { store'[proc'[p].id]["team1"], store'[proc'[p].id]["team2"] }
      /\ \A i \in Ids :
           ( store'[i]["winningTeam"] # Absent /\ store'[i]["team1"] # Absent )
           => store'[i]["winningTeam"] \in { store'[i]["team1"], store'[i]["team2"] }
      /\ ( /\ Responded
           /\ lastResp'.op = "reveal"
           /\ lastResp'.id # 0
           /\ Exists(lastResp'.id)
           /\ store[lastResp'.id]["team1"] # Absent
           /\ lastResp'.error = "ValidationError"
           /\ lastResp'.seen # Absent )
         => /\ lastResp'.code = 400
            /\ store' = store ]_vars

C11_Witness ==
  /\ lastResp.op = "reveal"
  /\ lastResp.code = 400
  /\ lastResp.error = "ValidationError"
  /\ lastResp.seen = Some("prediction_made")
  /\ store[lastResp.id]["team2"] = Some("A")
  /\ store[lastResp.id]["winningTeam"] = Absent
  /\ store[lastResp.id]["status"] = Some("prediction_made")

\* C12: after a successful reveal, winningTeam and revealedPictureId of the
\* session never change: a later reveal of the session writes nothing.
C12_RevealedIsFinal ==
  [][ \A i \in Ids :
        ( store[i]["status"] = Some("revealed") /\ Exists(i)' )
        => /\ store'[i]["winningTeam"] = store[i]["winningTeam"]
           /\ store'[i]["revealedPictureId"] = store[i]["revealedPictureId"] ]_vars

\* C13: every stored session has a team1PictureId that is the id of its
\* picture1 or of its picture2, and no step changes team1PictureId, picture1,
\* picture2, team1 or team2 of a stored session.
C13_BindingFixed ==
  [][ \A i \in Ids :
        /\ Exists(i)'
             => /\ store'[i]["picture1"] # Absent
                /\ store'[i]["picture2"] # Absent
                /\ store'[i]["team1PictureId"] \in
                     { Some(store'[i]["picture1"][1].id), Some(store'[i]["picture2"][1].id) }
        /\ ( Exists(i) /\ Exists(i)' )
             => \A f \in { "team1PictureId", "picture1", "picture2", "team1", "team2" } :
                  store'[i][f] = store[i][f] ]_vars

\* C14: every pair the selector returns consists of two pictures with
\* different ids, neither of which is in usedPictureIds.
C14_SelectedPairDistinct ==
  sel.pc = "done"
  => /\ sel.picture1[1].id # sel.picture2[1].id
     /\ sel.picture1[1].id \notin sel.usedPictureIds
     /\ sel.picture2[1].id \notin sel.usedPictureIds

\* Colour distance >= 0.30, the distance being the Euclidean distance of the
\* two colours divided by sqrt(255^2 * 3): d^2 / (255^2 * 3) >= 0.09.
ColourCriterion(picture1, picture2) ==
  \/ picture1.avgColor = Absent
  \/ picture2.avgColor = Absent
  \/ 100 * SquaredDistance(picture1.avgColor[1], picture2.avgColor[1]) >= 9 * (255 * 255 * 3)

\* Jaccard similarity of the lower-cased words <= 0.50.
DescriptionCriterion(picture1, picture2) ==
  \/ picture1.description = <<>>
  \/ picture2.description = <<>>
  \/ LET words1 == { toLowerCase(picture1.description[k]) : k \in 1..Len(picture1.description) }
         words2 == { toLowerCase(picture2.description[k]) : k \in 1..Len(picture2.description) }
     IN  2 * Cardinality(words1 \cap words2) <= Cardinality(words1 \cup words2)

\* C15: the selector accepts a pair exactly when both criteria hold: colour
\* distance >= 0.30 or avgColor missing on a picture, and Jaccard similarity
\* of the descriptions <= 0.50 or the description missing on a picture.
C15_AcceptedPairsMeetCriteria ==
  [][ sel.pc = "check"
      => ( sel'.pc = "done"
           <=> /\ ColourCriterion(sel.picture1[1], sel.picture2[1])
               /\ DescriptionCriterion(sel.picture1[1], sel.picture2[1]) ) ]_vars

C17_LabelsDistinct ==
  /\ \A i \in Ids :
       ( Exists(i) /\ store[i]["team1"] # Absent )
       => /\ Truthy(store[i]["team1"])
          /\ Truthy(store[i]["team2"])
          /\ store[i]["team1"] # store[i]["team2"]
  /\ ( lastResp.op = "create" /\ lastResp.code = 200 )
       => lastResp.view["team1"] # lastResp.view["team2"]

\* C18: create binds team1 to either of the two fetched pictures: wherever a
\* create can run, a session whose team1PictureId is the id of its picture1
\* and a session whose team1PictureId is the id of its picture2 (with two
\* different pictures) can both be stored.
C18_BothBindingsPossible ==
  ( CanStart /\ nextId <= MaxSessions )
  => /\ ENABLED ( /\ Next
                  /\ store'[nextId]["PK"] # Absent
                  /\ store'[nextId]["picture1"][1].id # store'[nextId]["picture2"][1].id
                  /\ store'[nextId]["team1PictureId"] = Some(store'[nextId]["picture1"][1].id) )
     /\ ENABLED ( /\ Next
                  /\ store'[nextId]["PK"] # Absent
                  /\ store'[nextId]["picture1"][1].id # store'[nextId]["picture2"][1].id
                  /\ store'[nextId]["team1PictureId"] = Some(store'[nextId]["picture2"][1].id) )

\* C19: no failure of the comparer makes a predict fail: the step of a
\* predict that follows its read never answers with the 500 of a comparer
\* that threw, and a degraded verdict is committed with status
\* prediction_made, no matchedTeam and confidenceScore 0.
C19_OracleFailureDegrades ==
  [][ \A p \in Procs :
        ( proc[p].op = "predict" /\ proc[p].pc = "update" /\ proc'[p].pc # "update" )
        => /\ ~ ( Responded /\ lastResp'.threw = "PredictionComparer" )
           /\ ( proc'[p].pc = "reread" /\ store'[proc[p].id]["reasoning"] = Some("Error") )
                => /\ store'[proc[p].id]["status"] = Some("prediction_made")
                   /\ store'[proc[p].id]["matchedTeam"] = Some(Null)
                   /\ store'[proc[p].id]["confidenceScore"] = Some(0) ]_vars

\* C20: predict commits the verdict and the status in one write: a session
\* with status created never has a predictionText, matchedTeam,
\* confidenceScore or predictionTimestamp, and a predict or llm-predict that
\* ends at its write step without committing leaves the store as it was.
C20_VerdictAtomic ==
  [][ /\ \A i \in Ids :
           store'[i]["status"] = Some("created")
           => \A f \in { "predictionText", "matchedTeam", "confidenceScore", "predictionTimestamp" } :
                store'[i][f] = Absent
      /\ \A p \in Procs :
           ( proc[p].pc \in { "update", "generate" } /\ proc'[p].pc = "idle" )
           => /\ store' = store
              /\ lastResp'.code = 500 ]_vars

C20_Witness ==
  /\ lastResp.op = "predict"
  /\ lastResp.code = 500
  /\ lastResp.threw = "none"
  /\ store[lastResp.id]["status"] = Some("created")
  /\ store[lastResp.id]["predictionText"] = Absent

\* An id that was handed out and under which no item is stored: the session
\* was deleted (or its PutItem failed).
Gone(i) == i < nextId /\ ~ Exists(i)

\* C21: a deleted session is permanently gone: no later write stores an item
\* under its id, whatever requests had read the session before the delete.
C21_DeletedStaysDeleted ==
  [][ \A i \in Ids : Gone(i) => store'[i]["PK"] = Absent ]_vars

\* C22: a reveal with a valid label takes effect from status created as from
\* prediction_made: its write leaves the session revealed, with the
\* winningTeam of the request and a revealedPictureId, and a session revealed
\* from created has no predictionText and no verdict field.
C22_RevealFromCreatedOrMade ==
  [][ \A p \in Procs :
        ( proc[p].pc = "reveal" /\ proc'[p].pc = "reread"
          /\ store[proc[p].id]["status"] \in Unrevealed )
        => LET before == store[proc[p].id]
               after == store'[proc[p].id]
           IN  /\ after["status"] = Some("revealed")
               /\ after["winningTeam"] = proc[p].winningTeam
               /\ after["winningTeam"] \in { before["team1"], before["team2"] }
               /\ after["revealedPictureId"] # Absent
               /\ after["revealedPictureId"] = proc[p].revealedPictureId
               /\ before["status"] = Some("created")
                    => \A f \in VerdictFields \cup { "predictionText", "predictionTimestamp" } :
                         after[f] = Absent ]_vars

C22_Witness ==
  /\ lastResp.op = "reveal"
  /\ lastResp.code = 200
  /\ lastResp.view["status"] = Some("revealed")
  /\ lastResp.view["winningTeam"] = Some("B")
  /\ lastResp.view["revealedPictureId"] = Some(lastResp.view["picture2"][1].id)
  /\ lastResp.view["predictionText"] = Absent
  /\ lastResp.view["confidenceScore"] = Absent
  /\ nresp = 2

\* C23: a get on a revealed session returns a view without picture1 and
\* picture2 and with one revealedPicture, which is the stored picture whose id
\* is the stored revealedPictureId; the other picture is not in the view.
C23_GetRevealedOnePicture ==
  [][ ( /\ Responded
        /\ lastResp'.op = "get"
        /\ lastResp'.code = 200
        /\ lastResp'.seen = Some("revealed") )
      => LET view == lastResp'.view
             item == store[lastResp'.id]
         IN  /\ HidesPictures(view)
             /\ view["revealedPicture"] # Absent
             /\ Some(view["revealedPicture"][1].id) = item["revealedPictureId"]
             /\ view["revealedPictureId"] = item["revealedPictureId"]
             /\ view["revealedPicture"] \in { item["picture1"], item["picture2"] } ]_vars

C23_Witness ==
  /\ lastResp.op = "get"
  /\ lastResp.code = 200
  /\ lastResp.seen = Some("revealed")
  /\ store[lastResp.id]["picture1"] # Absent
  /\ store[lastResp.id]["picture1"][1].id # store[lastResp.id]["picture2"][1].id
  /\ lastResp.view["revealedPicture"] = store[lastResp.id]["picture2"]

C25_EmptyGuessRejected ==
  [][ \A p \in Procs, id \in IdInputs, g \in Guesses :
        ( /\ ~ Truthy(g[1])
          /\ ~ Truthy(g[2])
          /\ PostPsychicPredictRead(p, id, g[1], g[2]) )
        => /\ lastResp'.op = "predict"
           /\ lastResp'.code = 400
           /\ lastResp'.error = "ValidationError"
           /\ lastResp'.cmp = NoComparison
           /\ store' = store
           /\ proc' = proc ]_vars

C25_Witness ==
  /\ lastResp.op = "predict"
  /\ lastResp.error = "ValidationError"
  /\ lastResp.id # 0
  /\ store[lastResp.id]["status"] = Some("created")
  /\ store[lastResp.id]["predictionText"] = Absent
  /\ \A f \in VerdictFields : store[lastResp.id][f] = Absent
  /\ \A p \in Procs : proc[p] = Idle

\* The team the write of a guess must store for the comparison c of the
\* session read as `prediction`: team1 for the picture of team1PictureId,
\* team2 for the other picture, none (stored as null) without a match.
BoundTeam(prediction, c) ==
  IF ~ Truthy(c.matchedPictureId) THEN Some(Null)
  ELSE IF c.matchedPictureId = prediction["team1PictureId"] THEN prediction["team1"]
  ELSE prediction["team2"]

\* C26: a stored matchedTeam, when there is one, is team1 or team2 of the
\* session that holds it, and the write of a guess stores the team bound to the
\* picture the comparison matched, and none when nothing was matched.
C26_MatchedTeamIsBoundLabel ==
  [][ /\ \A i \in Ids :
           Truthy(store'[i]["matchedTeam"])
             => store'[i]["matchedTeam"] \in { store'[i]["team1"], store'[i]["team2"] }
      /\ \A p \in Procs, o \in OracleOutputs :
           ( ~ ComparerThrows(o) /\ PostPsychicPredictWrite(p, o, TRUE) )
           => store'[proc[p].id]["matchedTeam"] =
                BoundTeam(proc[p].prediction,
                          comparePrediction(proc[p].text, proc[p].sketch,
                                            proc[p].prediction["picture1"][1],
                                            proc[p].prediction["picture2"][1], o)) ]_vars

\* The answer to a request that named an id without an item: NotFound, with
\* the store and the requests in flight left as they were.
NotFoundStep(id) ==
  /\ lastResp'.id = id
  /\ lastResp'.code = 404
  /\ lastResp'.error = "NotFound"
  /\ store' = store
  /\ proc' = proc

\* C27: predict, reveal, get, delete and test, given an id under which the
\* store holds no item (and otherwise valid arguments), answer NotFound and
\* store nothing under that id.
C27_UnknownIdNotFound ==
  [][ \A id \in Ids :
        ~ Exists(id) =>
          /\ \A p \in Procs, g \in Guesses :
               ( (Truthy(g[1]) \/ Truthy(g[2])) /\ PostPsychicPredictRead(p, id, g[1], g[2]) )
                 => NotFoundStep(id)
          /\ \A p \in Procs, winningTeam \in Teams :
               ( Truthy(winningTeam) /\ PostPsychicRevealRead(p, id, winningTeam) )
                 => NotFoundStep(id)
          /\ \A includePictures \in BOOLEAN :
               GetPsychic(id, includePictures) => NotFoundStep(id)
          /\ \A p \in Procs : DeletePsychicRead(p, id) => NotFoundStep(id)
          /\ \A text \in Texts, o \in OracleOutputs :
               ( Truthy(text) /\ PostPsychicTest(id, text, o) ) => NotFoundStep(id) ]_vars

C27_Witness ==
  /\ lastResp.op = "reveal"
  /\ lastResp.code = 404
  /\ lastResp.error = "NotFound"
  /\ Gone(lastResp.id)
  /\ \A i \in Ids : ~ Exists(i)

\* C28: a stored confidenceScore, when there is one, is a number from 0 to
\* 100, whatever the oracle returned.
C28_ConfidenceInRange ==
  \A i \in Ids :
    store[i]["confidenceScore"] # Absent => store[i]["confidenceScore"][1] \in 0..100

\* The selector is back at the head of its loop because the check rejected
\* the pair it holds (and not because a fetch threw: a resample of the second
\* slot is only made while that slot's condition holds and retries < 5).
Rejected ==
  /\ sel.pc = "loop"
  /\ sel.picture1 # Absent
  /\ sel.picture2 # Absent
  /\ ~ ( /\ ( sel.picture2[1].id = sel.picture1[1].id
              \/ sel.picture2[1].id \in sel.usedPictureIds )
         /\ sel.retries < MaxRetries )

\* C29: after a rejection the selector keeps its first candidate for the next
\* outer attempt and samples the second slot only.
C29_KeepsFirstCandidate ==
  [][ ( Rejected /\ sel.attempts < maxAttempts )
      => ( sel'.picture1 = sel.picture1 /\ sel'.pc = "fetch2" ) ]_vars

\* C30: of two pictures that both have an average colour, the colour test
\* passes exactly when the squared RGB distance d^2 of the colours satisfies
\* d^2 / (255^2 * 3) >= 0.09, and the distance colorDistance returns, d / 441,
\* is at most 1.
C30_ColourThreshold ==
  [][ ( /\ sel.pc = "check"
        /\ sel.picture1[1].avgColor # Absent
        /\ sel.picture2[1].avgColor # Absent )
      => LET d2 == SquaredDistance(sel.picture1[1].avgColor[1], sel.picture2[1].avgColor[1])
         IN  /\ ~ ColorTooSimilar(sel.picture1[1].avgColor[1], sel.picture2[1].avgColor[1])
                  <=> 100 * d2 >= 9 * (255 * 255 * 3)
             /\ DescriptionCriterion(sel.picture1[1], sel.picture2[1])
                  => ( sel'.pc = "done" <=> 100 * d2 >= 9 * (255 * 255 * 3) )
             /\ d2 <= 441 * 441 ]_vars

\* C31: a create that fails, because the selector threw or because the
\* PutItem threw, stores nothing: the store is after the create what it was
\* before it.
C31_FailedCreateStoresNothing ==
  [][ ( /\ Responded
        /\ lastResp'.op = "create"
        /\ lastResp'.code # 200 )
      => store' = store ]_vars

C31_Witness ==
  /\ lastResp.op = "create"
  /\ lastResp.code = 500
  /\ Exists(1)
  /\ \A i \in Ids \ { 1 } : ~ Exists(i)
  /\ nextId = 3

\* The fields a comparison is committed to.
GuessFields == VerdictFields \cup { "predictionText", "predictionSketchUrl", "predictionTimestamp" }

\* C32: a test request, whatever its answer, leaves the store as it was, and a
\* step that stores a verdict is the write of a predict or llm-predict on that
\* session.
C32_TestStoresNothing ==
  [][ /\ \A id \in IdInputs, text \in Texts, o \in OracleOutputs :
           PostPsychicTest(id, text, o) => store' = store
      /\ ( Responded /\ lastResp'.op = "test" ) => store' = store
      /\ \A i \in Ids :
           ( \E f \in GuessFields : store'[i][f] # store[i][f] /\ store'[i][f] # Absent )
           => \E p \in Procs :
                /\ proc[p].op \in { "predict", "llm-predict" }
                /\ proc[p].id = i
                /\ proc'[p].pc = "reread" ]_vars

C32_Witness ==
  /\ lastResp.op = "test"
  /\ lastResp.code = 200
  /\ lastResp.seen = Some("created")
  /\ Truthy(lastResp.cmp.matchedPictureId)
  /\ store[lastResp.id]["status"] = Some("created")
  /\ \A f \in GuessFields : store[lastResp.id][f] = Absent

\* C33: a step changes the item of one session at most: the one named by the
\* request that makes the write, or, for a create, the one stored under the
\* fresh id; every other item is left as it was.
C33_WritesScopedToOneSession ==
  [][ \A i \in Ids :
        store'[i] # store[i]
        => \/ \E p \in Procs :
                /\ proc[p].pc \in { "update", "generate", "reveal", "delete" }
                /\ proc[p].id = i
                /\ proc'[p] # proc[p]
                /\ \A j \in Ids \ { i } : store'[j] = store[j]
           \/ /\ i = nextId
              /\ ~ Exists(i)
              /\ Responded
              /\ lastResp'.op = "create"
              /\ \A j \in Ids \ { i } : store'[j] = store[j] ]_vars

C33_Witness ==
  /\ Exists(1)
  /\ Exists(2)
  /\ store[1]["status"] = Some("revealed")
  /\ store[2]["status"] = Some("created")
  /\ store[2]["winningTeam"] = Absent
  /\ lastResp.op = "reveal"
  /\ lastResp.id = 1
  /\ lastResp.code = 200

\* A session that was created and not deleted: its item holds what create put.
Live(i) == Exists(i) /\ store[i]["createdAt"] # Absent

\* C34: a list with limit n returns at most n sessions, the later created
\* before the earlier and none older than a session it leaves out, and it
\* returns every session that was created and not deleted when these are at
\* most n.
C34_ListRecentFirst ==
  [][ \A limit \in Limits :
        GetPsychicList(limit)
        => LET l == lastResp'.list
               listed == { l[k]["id"][1] : k \in 1..Len(l) }
           IN  /\ Len(l) <= limit
               /\ listed \subseteq { i \in Ids : Live(i) }
               /\ \A k \in 1..Len(l) : l[k]["createdAt"] = store[l[k]["id"][1]]["createdAt"]
               /\ \A k1, k2 \in 1..Len(l) :
                    k1 < k2 => l[k1]["createdAt"][1] > l[k2]["createdAt"][1]
               /\ \A i \in Ids :
                    ( Live(i) /\ i \notin listed )
                    => \A j \in listed : store[j]["createdAt"][1] > store[i]["createdAt"][1]
               /\ Cardinality({ i \in Ids : Live(i) }) <= limit
                    => listed = { i \in Ids : Live(i) } ]_vars

C34_Witness ==
  /\ lastResp.op = "list"
  /\ lastResp.code = 200
  /\ Len(lastResp.list) = 1
  /\ lastResp.list[1]["id"] = Some(2)
  /\ Live(1)
  /\ Live(2)

\* The statuses the store writes.
WrittenStatuses == { Some("created"), Some("prediction_made"), Some("revealed") }

\* C35: the status of every stored item is created, prediction_made or
\* revealed, never expired, and a get that answers 200 has read one of these
\* three: the branch that returns the whole prediction is not taken.
C35_ExpiredUnreachable ==
  /\ \A i \in Ids : Exists(i) => store[i]["status"] \in WrittenStatuses
  /\ \A p \in Procs : proc[p].pc # "idle" => proc[p].prediction["status"] \in WrittenStatuses \cup { Absent }
  /\ ( lastResp.op = "get" /\ lastResp.code = 200 ) => lastResp.seen \in WrittenStatuses

C35_Witness ==
  /\ \E i \in Ids : Exists(i) /\ ~ Live(i) /\ store[i]["status"] = Some("revealed")
  /\ lastResp.op = "reveal"
  /\ lastResp.code = 200

\* A step in which a fetchRandomPicture call threw: the fetch steps otherwise
\* lead to the next fetch or to the check.
SourceThrew ==
  /\ sel.pc \in { "fetch1", "retry1", "fetch2", "retry2" }
  /\ sel'.pc \in { "loop", "failed" }

\* C36: an error of the source in an outer attempt before the last is
\* swallowed (the attempt stays counted and the loop goes on); in the last
\* attempt it is rethrown; and the call fails with the exhaustion error
\* exactly when the last attempt ended without an error of the source.
C36_SourceErrorsSwallowed ==
  [][ /\ SourceThrew
        => IF sel.attempts < maxAttempts
             THEN sel' = [sel EXCEPT !.pc = "loop"]
             ELSE sel' = [sel EXCEPT !.pc = "failed", !.error = "source"]
      /\ \A picture \in Source :
           ( SelectorFetchFirst(picture, TRUE) \/ SelectorFetchSecond(picture, TRUE) )
           => SourceThrew
      /\ ( sel.pc # "failed" /\ sel'.pc = "failed" /\ ~ SourceThrew )
        => /\ sel.pc = "loop"
           /\ sel.attempts = maxAttempts
           /\ sel'.error = "exhausted"
      /\ sel'.pc = "failed" => sel'.attempts = maxAttempts ]_vars

\* The first fetch of the ninth attempt threw and the loop goes on: the head of
\* the loop is only reached without a first candidate after such a throw.
C36_Witness ==
  /\ sel.pc = "loop"
  /\ sel.attempts = maxAttempts - 1
  /\ sel.picture1 = Absent
  /\ sel.error = "none"

\* C37: llm-predict writes its verdict, and the status prediction_made, over a
\* session in status created only; it is rejected with no write for a model
\* that is not valid and on a session in status prediction_made or revealed;
\* and when generatePrediction throws it writes nothing.
C37_LlmPredictStateMachine ==
  [][ /\ \A p \in Procs :
           ( proc[p].pc = "generate" /\ proc'[p].pc = "reread" )
           => /\ store[proc[p].id]["status"] = Some("created")
              /\ store'[proc[p].id]["status"] = Some("prediction_made")
      /\ \A p \in Procs, id \in Ids, model \in Models :
           ( /\ PostPsychicLlmPredictRead(p, id, model)
             /\ \/ model = Absent
                \/ model[1] \notin VALID_MODELS
                \/ store[id]["status"] \in { Some("prediction_made"), Some("revealed") } )
           => /\ lastResp'.op = "llm-predict"
              /\ lastResp'.code = 400
              /\ lastResp'.error \in { "ValidationError", "InvalidState" }
              /\ store' = store
              /\ proc' = proc
      /\ \A p \in Procs, o \in OracleOutputs, ok \in BOOLEAN :
           PostPsychicLlmPredictWrite(p, "throws", o, ok)
           => /\ lastResp'.code = 500
              /\ store' = store
              /\ proc'[p] = Idle ]_vars

\* C38: for a reply of the oracle that holds JSON, comparePrediction reports
\* picture1.id for 'picture1', picture2.id for 'picture2' and no match for
\* anything else, and returns the oracle's confidenceScore in each case; the
\* write of a predict then stores that score, and no matchedTeam when nothing
\* was matched.
C38_OnlyExactNamesMatch ==
  [][ /\ \A id \in Ids, text \in Texts, o \in OracleOutputs :
           ( /\ PostPsychicTest(id, text, o)
             /\ lastResp'.code = 200
             /\ o.kind = "json" )
           => /\ lastResp'.cmp.matchedPictureId =
                   IF o.matchedPictureId = "picture1" THEN Some(store[id]["picture1"][1].id)
                   ELSE IF o.matchedPictureId = "picture2" THEN Some(store[id]["picture2"][1].id)
                   ELSE Some(Null)
              /\ lastResp'.cmp.confidenceScore = Some(o.confidenceScore)
      /\ \A p \in Procs, o \in OracleOutputs :
           ( /\ PostPsychicPredictWrite(p, o, TRUE)
             /\ o.kind = "json"
             /\ o.matchedPictureId \notin { "picture1", "picture2" } )
           => /\ ~ Truthy(store'[proc[p].id]["matchedTeam"])
              /\ store'[proc[p].id]["confidenceScore"] = Some(o.confidenceScore) ]_vars

C38_Witness ==
  \E i \in Ids :
    /\ Live(i)
    /\ store[i]["status"] = Some("prediction_made")
    /\ store[i]["confidenceScore"] = Some(85)
    /\ store[i]["matchedTeam"] = Some(Null)
    /\ lastResp.op = "predict"
    /\ lastResp.code = 200

====
